---- MODULE Spec2Model ----
(***************************************************************************)
(* Model of the nested interrupt dispatcher (InterruptSystem) with its     *)
(* pending PriorityQueue, active stack, masks, completion Event and the    *)
(* handler threads it starts.                                               *)
(*                                                                         *)
(* Every public method of InterruptSystem runs its whole body under the    *)
(* re-entrant lock self._lock, so one call is one atomic action here; the  *)
(* nested calls a method makes while holding the lock (trigger ->          *)
(* _process_pending -> _handle_interrupt -> _finish_interrupt ->           *)
(* _process_pending ...) are computed by mutually recursive operators on   *)
(* a record of the dispatcher's fields.  Handler threads are separate      *)
(* processes: the callback body runs outside the lock, then the thread     *)
(* calls _finish_interrupt.                                                *)
(***************************************************************************)
EXTENDS Integers, Sequences, FiniteSets, TLC

(* ---------------------------------------------------------------------- *)
(* Bounds and input sets                                                    *)
(* ---------------------------------------------------------------------- *)

\* number of accepted triggers (instances ever created) explored
MaxTriggers == 3

\* number of register_interrupt / register_handler / mask calls explored
MaxConfigCalls == 2

\* interrupt names used by callers; a name is unknown until registered
Names == {"a", "b"}

\* priorities callers register (low_priority=10 and high_priority=100 of
\* the examples)
Priorities == {10, 100}

\* the value None
None == "None"

\* callables a caller can pass as handler callback
Callbacks == {"cb"}

VARIABLES
    interrupts,        \* self.interrupts : name -> Interrupt (definition)
    handlers,          \* self.handlers   : name -> InterruptHandler (its callback)
    pending_queue,     \* self.pending_queue : [queue, entry_counter]
    active_stack,      \* self.active_stack  : sequence of instance ids
    global_mask,       \* self.global_mask
    processing_event,  \* self._processing_event (threading.Event flag)
    instances,         \* the Interrupt objects created by trigger, by identity
    threads,           \* the thread started for an instance, if any
    lock,              \* self._lock : [owner, count]
    last_admission,    \* what the most recent _process_pending saw (history)
    lastCall,          \* the most recent call: operation, arguments, result, trace
    config_calls,      \* number of registry/mask calls made so far
    visualizer,        \* the InterruptVisualizer attached to the system, if any
    handler_at_trigger \* self.handlers.get(name) as trigger found it, per instance (history)

vars == <<interrupts, handlers, pending_queue, active_stack, global_mask,
          processing_event, instances, threads, lock, last_admission,
          lastCall, config_calls, visualizer, handler_at_trigger>>

\* the record kept of a call: the operation comes first, it tells which
\* kinds of argument and result the other fields hold
Call(op, name, arg, ret, trace, depth) ==
    [op |-> op, name |-> name, arg |-> arg, ret |-> ret, trace |-> trace,
     depth |-> depth]

(* ---------------------------------------------------------------------- *)
(* Interrupt (interrupt.py)                                                 *)
(* ---------------------------------------------------------------------- *)

\* Interrupt.__init__ (the payload data is carried along and never read by
\* the dispatcher; it is left out)
Interrupt(name, priority, handler) ==
    [name |-> name, priority |-> priority, handler |-> handler,
     is_active |-> FALSE, is_masked |-> FALSE]

\* Interrupt.__lt__ : higher priority compares as smaller
InterruptLt(x, y) == x.priority > y.priority

(* ---------------------------------------------------------------------- *)
(* PriorityQueue (priority_queue.py) on top of heapq's binary heap.         *)
(* A heap entry is the tuple <<-priority, entry_counter, item>>; item is    *)
(* the identity of an instance.  Python lists are 0-based, the sequences    *)
(* here 1-based: position p of the list is element p+1.                     *)
(* ---------------------------------------------------------------------- *)

\* PriorityQueue.__init__
NewPriorityQueue == [queue |-> <<>>, entry_counter |-> 0]

\* variant: arrival counter negated, so the newest of equal priorities is first
HeapEntry_Lifo(priority, counter, item) == <<-priority, -counter, item>>

\* variant: priority not negated, so the min-heap yields the lowest priority
HeapEntry_MinFirst(priority, counter, item) == <<priority, counter, item>>

\* variant: the priority is left out of the key, the oldest entry goes first
HeapEntry_Fifo(priority, entry_counter, item) == <<0, entry_counter, item>>

\* the heap entry push builds
HeapEntry(priority, counter, item) == <<-priority, counter, item>>

\* tuple comparison e1 < e2 as heapq applies it (lexicographic; the item is
\* compared, with Interrupt.__lt__, only when the first two fields tie)
EntryLess(insts, e1, e2) ==
    \/ e1[1] < e2[1]
    \/ e1[1] = e2[1] /\ e1[2] < e2[2]
    \/ e1[1] = e2[1] /\ e1[2] = e2[2] /\ e1[3] # e2[3]
         /\ InterruptLt(insts[e1[3]], insts[e2[3]])

RECURSIVE SiftDown(_, _, _, _, _)
\* heapq._siftdown(heap, startpos, pos) with newitem carried along
SiftDown(insts, heap, startpos, pos, newitem) ==
    IF pos > startpos
    THEN LET parentpos == (pos - 1) \div 2
             parent == heap[parentpos + 1]
         IN IF EntryLess(insts, newitem, parent)
            THEN SiftDown(insts, [heap EXCEPT ![pos + 1] = parent],
                          startpos, parentpos, newitem)
            ELSE [heap EXCEPT ![pos + 1] = newitem]
    ELSE [heap EXCEPT ![pos + 1] = newitem]

RECURSIVE SiftUpLoop(_, _, _, _)
\* the while loop of heapq._siftup: bubble the smaller child up to a leaf;
\* yields the heap and the leaf position reached
SiftUpLoop(insts, heap, pos, endpos) ==
    LET childpos == 2 * pos + 1
        rightpos == childpos + 1
    IN IF childpos < endpos
       THEN LET c == IF rightpos < endpos
                        /\ ~EntryLess(insts, heap[childpos + 1], heap[rightpos + 1])
                     THEN rightpos ELSE childpos
            IN SiftUpLoop(insts, [heap EXCEPT ![pos + 1] = heap[c + 1]], c, endpos)
       ELSE [heap |-> heap, pos |-> pos]

\* heapq._siftup(heap, pos)
SiftUp(insts, heap, pos) ==
    LET newitem == heap[pos + 1]
        r == SiftUpLoop(insts, heap, pos, Len(heap))
    IN SiftDown(insts, r.heap, pos, r.pos, newitem)

\* heapq.heappush(heap, item)
HeapPush(insts, heap, entry) ==
    LET h == Append(heap, entry)
    IN SiftDown(insts, h, 0, Len(h) - 1, entry)

\* heapq.heappop(heap): [heap after, entry returned]
HeapPop(insts, heap) ==
    LET lastelt == heap[Len(heap)]
        rest == SubSeq(heap, 1, Len(heap) - 1)
    IN IF rest # <<>>
       THEN [heap |-> SiftUp(insts, [rest EXCEPT ![1] = lastelt], 0),
             entry |-> heap[1]]
       ELSE [heap |-> rest, entry |-> lastelt]

\* PriorityQueue.push(item, priority)
push(insts, pq, item, priority) ==
    [queue |-> HeapPush(insts, pq.queue,
                        HeapEntry(priority, pq.entry_counter, item)),
     entry_counter |-> pq.entry_counter + 1]

\* variant: the counter starts again when the queue runs empty
pop_ResetsCounter(insts, pq) ==
    IF pq.queue = <<>>
    THEN [pq |-> pq, item |-> None]
    ELSE LET r == HeapPop(insts, pq.queue)
         IN [pq |-> [queue |-> r.heap,
                     entry_counter |-> IF r.heap = <<>> THEN 0
                                       ELSE pq.entry_counter],
             item |-> r.entry[3]]

\* PriorityQueue.pop(): [pq after, item returned]
pop(insts, pq) ==
    IF pq.queue = <<>>
    THEN [pq |-> pq, item |-> None]
    ELSE LET r == HeapPop(insts, pq.queue)
         IN [pq |-> [pq EXCEPT !.queue = r.heap], item |-> r.entry[3]]

\* PriorityQueue.peek()
peek(pq) == IF pq.queue = <<>> THEN None ELSE pq.queue[1][3]

\* PriorityQueue.is_empty()
is_empty(pq) == Len(pq.queue) = 0

(* ---------------------------------------------------------------------- *)
(* InterruptSystem (interrupt_handler.py).  The operators below work on a   *)
(* record s holding the fields of self, the Interrupt instances and         *)
(* threads created so far, the value returned (ret) and a trace of what     *)
(* the call did while it held the lock.                                     *)
(* ---------------------------------------------------------------------- *)

\* one entry of a call's trace
Event(ev, inst, popped, pend, stack, empty) ==
    [ev |-> ev, inst |-> inst, popped |-> popped, pend |-> pend,
     stack |-> stack, empty |-> empty]

\* the heap entries held in the pending queue, and their items
Entries(pq) == {pq.queue[k] : k \in 1..Len(pq.queue)}
Items(pq) == {e[3] : e \in Entries(pq)}

\* variant: a strict LIFO pop, the last element goes whatever x is
Remove_Pop(seq, x) == SubSeq(seq, 1, Len(seq) - 1)

\* list.remove(x): drop the first element equal to x
Remove(seq, x) ==
    LET k == CHOOSE j \in 1..Len(seq) :
                 seq[j] = x /\ \A m \in 1..(j - 1) : seq[m] # x
    IN SubSeq(seq, 1, k - 1) \o SubSeq(seq, k + 1, Len(seq))

\* x in list
Contains(seq, x) == \E j \in 1..Len(seq) : seq[j] = x

\* dict with d[k] = v
Put(d, k, v) == (k :> v) @@ d

\* variant: a plain threading.Lock, which its owner cannot take again
LockReentrant_Plain == FALSE

\* self._lock is a threading.RLock: the owning thread may take it again
LockReentrant == TRUE

\* the lock when nobody holds it
FreeLock == [owner |-> None, count |-> 0]

\* entering "with self._lock": the thread s.thread takes the lock, or takes
\* it once more when it owns it already; a thread that cannot take it waits
\* (blocked) and does nothing further
Acquire(s) ==
    IF s.blocked
    THEN s
    ELSE IF s.lock.count = 0
    THEN [s EXCEPT !.lock = [owner |-> s.thread, count |-> 1],
                   !.depth = IF @ < 1 THEN 1 ELSE @]
    ELSE IF s.lock.owner = s.thread /\ LockReentrant
    THEN [s EXCEPT !.lock.count = @ + 1,
                   !.depth = IF @ < s.lock.count + 1 THEN s.lock.count + 1 ELSE @]
    ELSE [s EXCEPT !.blocked = TRUE]

\* leaving "with self._lock"
Release(s) ==
    IF s.blocked
    THEN s
    ELSE IF s.lock.count = 1
    THEN [s EXCEPT !.lock = FreeLock]
    ELSE [s EXCEPT !.lock.count = @ - 1]

\* variant: an equal priority preempts as well
Preempts_OrEqual(pending, current) == pending.priority >= current.priority

\* variant: the comparison is made the other way round
Preempts_Lower(pending, current) == pending.priority < current.priority

\* the comparison of _process_pending: pending.priority > current.priority
Preempts(pending, current) == pending.priority > current.priority

\* variant: a handler is stored only for a name that has a definition
register_handler_KnownOnly(self, interrupt_name, callback) ==
    LET s == Acquire(self)
    IN IF s.blocked
       THEN s
       ELSE Release(
            IF interrupt_name \in DOMAIN s.interrupts
            THEN [s EXCEPT !.handlers = Put(s.handlers, interrupt_name, callback),
                           !.ret = interrupt_name]
            ELSE [s EXCEPT !.ret = interrupt_name])

\* InterruptSystem.register_handler
register_handler(self, interrupt_name, callback) ==
    LET s == Acquire(self)
    IN IF s.blocked
       THEN s
       ELSE Release(
            [s EXCEPT !.handlers = Put(s.handlers, interrupt_name, callback),
                      !.ret = interrupt_name])

\* variant: instances share the definition object, so a new priority shows
\* in the instances already triggered under the name
register_interrupt_Retroactive(self, name, priority, handler) ==
    LET s == Acquire(self)
    IN IF s.blocked
       THEN s
       ELSE Release(
            IF name \in DOMAIN s.interrupts
            THEN [s EXCEPT !.interrupts[name].priority = priority,
                           !.instances =
                               [i \in 1..Len(s.instances) |->
                                   IF s.instances[i].name = name
                                   THEN [s.instances[i] EXCEPT !.priority = priority]
                                   ELSE s.instances[i]],
                           !.ret = name]
            ELSE LET s1 == [s EXCEPT !.interrupts =
                                Put(s.interrupts, name, Interrupt(name, priority, None))]
                     s2 == IF handler # None
                           THEN register_handler(s1, name, handler)
                           ELSE s1
                 IN [s2 EXCEPT !.ret = name])

\* variant: re-registering a known name also installs the handler passed
register_interrupt_Rehandle(self, name, priority, handler) ==
    LET s == Acquire(self)
    IN IF s.blocked
       THEN s
       ELSE Release(
            LET s1 == IF name \in DOMAIN s.interrupts
                      THEN [s EXCEPT !.interrupts[name].priority = priority]
                      ELSE [s EXCEPT !.interrupts =
                                Put(s.interrupts, name, Interrupt(name, priority, None))]
                s2 == IF handler # None
                      THEN register_handler(s1, name, handler)
                      ELSE s1
            IN [s2 EXCEPT !.ret = name])

\* InterruptSystem.register_interrupt
register_interrupt(self, name, priority, handler) ==
    LET s == Acquire(self)
    IN IF s.blocked
       THEN s
       ELSE Release(
            IF name \in DOMAIN s.interrupts
            THEN [s EXCEPT !.interrupts[name].priority = priority, !.ret = name]
            ELSE LET s1 == [s EXCEPT !.interrupts =
                                Put(s.interrupts, name, Interrupt(name, priority, None))]
                     s2 == IF handler # None
                           THEN register_handler(s1, name, handler)
                           ELSE s1
                 IN [s2 EXCEPT !.ret = name])

RECURSIVE process_pending(_), handle_interrupt(_, _), finish_interrupt(_, _)

\* the return of _process_pending: remember what the queue looks like now
EndAdmission(s) ==
    [s EXCEPT !.last_admission.end_empty = is_empty(s.pending_queue),
              !.trace = Append(@, Event("pp_return", 0, 0, {}, <<>>,
                                        is_empty(s.pending_queue)))]

\* variant: a drain loop, admission is tried again after each admission
process_pending_Drain(self) ==
    LET s == Acquire(self)
    IN IF s.blocked
       THEN s
       ELSE Release(
            LET empty == is_empty(s.pending_queue)
                s0 == [s EXCEPT !.last_admission.entry_empty = empty,
                                !.trace = Append(@, Event("pp", 0, 0, {}, <<>>, empty))]
            IN IF empty
               THEN EndAdmission([s0 EXCEPT !.processing_event = TRUE])
               ELSE LET pending == peek(s0.pending_queue)
                    IN IF s0.active_stack # <<>>
                       THEN LET current == s0.active_stack[Len(s0.active_stack)]
                            IN IF Preempts(s0.instances[pending], s0.instances[current])
                               THEN process_pending(handle_interrupt(s0, pending))
                               ELSE EndAdmission(s0)
                       ELSE process_pending(handle_interrupt(s0, pending)))

\* variant: admission is withheld while the global mask or the pending
\* interrupt's own mask is set
process_pending_MaskAware(self) ==
    LET s == Acquire(self)
    IN IF s.blocked
       THEN s
       ELSE Release(
            LET empty == is_empty(s.pending_queue)
                s0 == [s EXCEPT !.last_admission.entry_empty = empty,
                                !.trace = Append(@, Event("pp", 0, 0, {}, <<>>, empty))]
            IN IF empty
               THEN EndAdmission([s0 EXCEPT !.processing_event = TRUE])
               ELSE LET pending == peek(s0.pending_queue)
                    IN IF \/ s0.global_mask
                          \/ s0.interrupts[s0.instances[pending].name].is_masked
                       THEN EndAdmission(s0)
                       ELSE IF s0.active_stack # <<>>
                       THEN LET current == s0.active_stack[Len(s0.active_stack)]
                            IN IF Preempts(s0.instances[pending], s0.instances[current])
                               THEN EndAdmission(handle_interrupt(s0, pending))
                               ELSE EndAdmission(s0)
                       ELSE EndAdmission(handle_interrupt(s0, pending)))

\* variant: no preemption, an instance is admitted on an empty stack only
process_pending_IdleOnly(self) ==
    LET s == Acquire(self)
    IN IF s.blocked
       THEN s
       ELSE Release(
            LET empty == is_empty(s.pending_queue)
                s0 == [s EXCEPT !.last_admission.entry_empty = empty,
                                !.trace = Append(@, Event("pp", 0, 0, {}, <<>>, empty))]
            IN IF empty
               THEN EndAdmission([s0 EXCEPT !.processing_event = TRUE])
               ELSE LET pending == peek(s0.pending_queue)
                    IN IF s0.active_stack # <<>>
                       THEN EndAdmission(s0)
                       ELSE EndAdmission(handle_interrupt(s0, pending)))

\* variant: the completion event is set by every step that admits nothing,
\* whether the queue is empty or its head has to wait
process_pending_SetsWhenIdle(self) ==
    LET s == Acquire(self)
    IN IF s.blocked
       THEN s
       ELSE Release(
            LET empty == is_empty(s.pending_queue)
                s0 == [s EXCEPT !.last_admission.entry_empty = empty,
                                !.trace = Append(@, Event("pp", 0, 0, {}, <<>>, empty))]
                idle == [s0 EXCEPT !.processing_event = TRUE]
            IN IF empty
               THEN EndAdmission(idle)
               ELSE LET pending == peek(s0.pending_queue)
                    IN IF s0.active_stack # <<>>
                       THEN LET current == s0.active_stack[Len(s0.active_stack)]
                            IN IF Preempts(s0.instances[pending], s0.instances[current])
                               THEN EndAdmission(handle_interrupt(s0, pending))
                               ELSE EndAdmission(idle)
                       ELSE EndAdmission(handle_interrupt(s0, pending)))

\* variant: the completion event is also set by a step that leaves the
\* queue empty by admitting its last instance
process_pending_SetsAtEnd(self) ==
    LET s == Acquire(self)
    IN IF s.blocked
       THEN s
       ELSE Release(
            LET empty == is_empty(s.pending_queue)
                s0 == [s EXCEPT !.last_admission.entry_empty = empty,
                                !.trace = Append(@, Event("pp", 0, 0, {}, <<>>, empty))]
                Set(t) == IF is_empty(t.pending_queue)
                          THEN [t EXCEPT !.processing_event = TRUE]
                          ELSE t
            IN IF empty
               THEN EndAdmission([s0 EXCEPT !.processing_event = TRUE])
               ELSE LET pending == peek(s0.pending_queue)
                    IN IF s0.active_stack # <<>>
                       THEN LET current == s0.active_stack[Len(s0.active_stack)]
                            IN IF Preempts(s0.instances[pending], s0.instances[current])
                               THEN EndAdmission(Set(handle_interrupt(s0, pending)))
                               ELSE EndAdmission(s0)
                       ELSE EndAdmission(Set(handle_interrupt(s0, pending))))

\* InterruptSystem._process_pending
process_pending(self) ==
    LET s == Acquire(self)
    IN IF s.blocked
       THEN s
       ELSE Release(
            LET empty == is_empty(s.pending_queue)
                s0 == [s EXCEPT !.last_admission.entry_empty = empty,
                                !.trace = Append(@, Event("pp", 0, 0, {}, <<>>, empty))]
            IN IF empty
               THEN EndAdmission([s0 EXCEPT !.processing_event = TRUE])
               ELSE LET pending == peek(s0.pending_queue)
                    IN IF s0.active_stack # <<>>
                       THEN LET current == s0.active_stack[Len(s0.active_stack)]
                            IN IF Preempts(s0.instances[pending], s0.instances[current])
                               THEN EndAdmission(handle_interrupt(s0, pending))
                               ELSE EndAdmission(s0)
                       ELSE EndAdmission(handle_interrupt(s0, pending)))

\* variant: the handler is called in place, under the lock, and the admission
\* returns when it is over
handle_interrupt_Inline(self, interrupt) ==
    LET s == Acquire(self)
    IN IF s.blocked
       THEN s
       ELSE Release(
            LET p == pop(s.instances, s.pending_queue)
                s1 == [s EXCEPT !.pending_queue = p.pq,
                                !.instances[interrupt].is_active = TRUE,
                                !.active_stack = Append(@, interrupt),
                                !.trace = Append(@, Event("admit", interrupt, p.item,
                                                          Entries(s.pending_queue),
                                                          s.active_stack, FALSE))]
                name == s1.instances[interrupt].name
            IN IF name \in DOMAIN s1.handlers
               THEN finish_interrupt(
                        [s1 EXCEPT !.threads[interrupt] =
                                       [pc |-> "done", callback |-> s1.handlers[name]],
                                   !.trace = Append(@, Event("start", interrupt, 0, {},
                                                             s1.active_stack, FALSE))],
                        interrupt)
               ELSE finish_interrupt(s1, interrupt))

\* variant: an instance without handler is admitted and left on the stack
handle_interrupt_NoHandlerStays(self, interrupt) ==
    LET s == Acquire(self)
    IN IF s.blocked
       THEN s
       ELSE Release(
            LET p == pop(s.instances, s.pending_queue)
                s1 == [s EXCEPT !.pending_queue = p.pq,
                                !.instances[interrupt].is_active = TRUE,
                                !.active_stack = Append(@, interrupt),
                                !.trace = Append(@, Event("admit", interrupt, p.item,
                                                          Entries(s.pending_queue),
                                                          s.active_stack, FALSE))]
                name == s1.instances[interrupt].name
            IN IF name \in DOMAIN s1.handlers
               THEN [s1 EXCEPT !.threads[interrupt] =
                                   [pc |-> "started", callback |-> s1.handlers[name]],
                               !.trace = Append(@, Event("start", interrupt, 0, {},
                                                         s1.active_stack, FALSE))]
               ELSE s1)

\* variant: the thread of the handler is created but not started
handle_interrupt_NoStart(self, interrupt) ==
    LET s == Acquire(self)
    IN IF s.blocked
       THEN s
       ELSE Release(
            LET p == pop(s.instances, s.pending_queue)
                s1 == [s EXCEPT !.pending_queue = p.pq,
                                !.instances[interrupt].is_active = TRUE,
                                !.active_stack = Append(@, interrupt),
                                !.trace = Append(@, Event("admit", interrupt, p.item,
                                                          Entries(s.pending_queue),
                                                          s.active_stack, FALSE))]
                name == s1.instances[interrupt].name
            IN IF name \in DOMAIN s1.handlers
               THEN [s1 EXCEPT !.threads[interrupt] =
                                   [pc |-> "none", callback |-> s1.handlers[name]]]
               ELSE finish_interrupt(s1, interrupt))

\* variant: the callback is taken from the handler field of the instance,
\* the copy trigger made of the definition's field
handle_interrupt_FromInstance(self, interrupt) ==
    LET s == Acquire(self)
    IN IF s.blocked
       THEN s
       ELSE Release(
            LET p == pop(s.instances, s.pending_queue)
                s1 == [s EXCEPT !.pending_queue = p.pq,
                                !.instances[interrupt].is_active = TRUE,
                                !.active_stack = Append(@, interrupt),
                                !.trace = Append(@, Event("admit", interrupt, p.item,
                                                          Entries(s.pending_queue),
                                                          s.active_stack, FALSE))]
                handler == s1.instances[interrupt].handler
            IN IF handler # None
               THEN [s1 EXCEPT !.threads[interrupt] =
                                   [pc |-> "started", callback |-> handler],
                               !.trace = Append(@, Event("start", interrupt, 0, {},
                                                         s1.active_stack, FALSE))]
               ELSE finish_interrupt(s1, interrupt))

\* InterruptSystem._handle_interrupt
handle_interrupt(self, interrupt) ==
    LET s == Acquire(self)
    IN IF s.blocked
       THEN s
       ELSE Release(
            LET p == pop(s.instances, s.pending_queue)
                s1 == [s EXCEPT !.pending_queue = p.pq,
                                !.instances[interrupt].is_active = TRUE,
                                !.active_stack = Append(@, interrupt),
                                !.trace = Append(@, Event("admit", interrupt, p.item,
                                                          Entries(s.pending_queue),
                                                          s.active_stack, FALSE))]
                name == s1.instances[interrupt].name
            IN IF name \in DOMAIN s1.handlers
               THEN [s1 EXCEPT !.threads[interrupt] =
                                   [pc |-> "started", callback |-> s1.handlers[name]],
                               !.trace = Append(@, Event("start", interrupt, 0, {},
                                                         s1.active_stack, FALSE))]
               ELSE finish_interrupt(s1, interrupt))

\* variant: finishing does not look at the pending queue again
finish_interrupt_NoReadmit(self, interrupt) ==
    LET s == Acquire(self)
    IN IF s.blocked
       THEN s
       ELSE Release(
            [s EXCEPT !.active_stack =
                          IF Contains(@, interrupt) THEN Remove(@, interrupt)
                                                    ELSE @,
                      !.instances[interrupt].is_active = FALSE,
                      !.trace = Append(@, Event("finish", interrupt, 0, {},
                                                s.active_stack, FALSE))])

\* variant: the instance is taken off the stack but keeps its is_active flag
finish_interrupt_NoFlag(self, interrupt) ==
    LET s == Acquire(self)
    IN IF s.blocked
       THEN s
       ELSE Release(
            LET s1 == [s EXCEPT !.active_stack =
                                    IF Contains(@, interrupt) THEN Remove(@, interrupt)
                                                              ELSE @,
                                !.trace = Append(@, Event("finish", interrupt, 0, {},
                                                          s.active_stack, FALSE))]
            IN process_pending(s1))

\* InterruptSystem._finish_interrupt
finish_interrupt(self, interrupt) ==
    LET s == Acquire(self)
    IN IF s.blocked
       THEN s
       ELSE Release(
            LET s1 == [s EXCEPT !.active_stack =
                                    IF Contains(@, interrupt) THEN Remove(@, interrupt)
                                                              ELSE @,
                                !.instances[interrupt].is_active = FALSE,
                                !.trace = Append(@, Event("finish", interrupt, 0, {},
                                                          s.active_stack, FALSE))]
            IN process_pending(s1))

\* variant: the interrupt's own mask is not consulted
TriggerRejected_NoOwnMask(s, interrupt_name) ==
    \/ s.global_mask
    \/ interrupt_name \notin DOMAIN s.interrupts

\* the three rejections of trigger, in the order the code tests them
TriggerRejected(s, interrupt_name) ==
    \/ s.global_mask
    \/ interrupt_name \notin DOMAIN s.interrupts
    \/ s.interrupts[interrupt_name].is_masked

\* variant: a rejected trigger still clears the completion event
RejectTrigger_Clears(s) == [s EXCEPT !.ret = FALSE, !.processing_event = FALSE]

\* "return False" of a rejected trigger
RejectTrigger(s) == [s EXCEPT !.ret = FALSE]

\* variant: the instance is queued but no admission step is run
AcceptTrigger_NoAdmission(s, interrupt_name) ==
    LET interrupt == s.interrupts[interrupt_name]
        instance == Len(s.instances) + 1
        insts == Append(s.instances,
                        Interrupt(interrupt.name, interrupt.priority,
                                  interrupt.handler))
    IN [s EXCEPT
          !.instances = insts,
          !.threads = Append(@, [pc |-> "none", callback |-> None]),
          !.pending_queue = push(insts, @, instance, insts[instance].priority),
          !.trace = Append(@, Event("push", instance, 0, {}, <<>>, FALSE)),
          !.processing_event = FALSE,
          !.ret = TRUE]

\* variant: the completion event is not cleared
AcceptTrigger_NoClear(s, interrupt_name) ==
    LET interrupt == s.interrupts[interrupt_name]
        instance == Len(s.instances) + 1
        insts == Append(s.instances,
                        Interrupt(interrupt.name, interrupt.priority,
                                  interrupt.handler))
        s1 == [s EXCEPT
                 !.instances = insts,
                 !.threads = Append(@, [pc |-> "none", callback |-> None]),
                 !.pending_queue = push(insts, @, instance,
                                        insts[instance].priority),
                 !.trace = Append(@, Event("push", instance, 0, {}, <<>>,
                                           FALSE))]
        s3 == process_pending(s1)
    IN [s3 EXCEPT !.ret = TRUE]

\* the accepting part of trigger: new instance, push, clear the event,
\* one admission step, return True
AcceptTrigger(s, interrupt_name) ==
    LET interrupt == s.interrupts[interrupt_name]
        instance == Len(s.instances) + 1
        insts == Append(s.instances,
                        Interrupt(interrupt.name, interrupt.priority,
                                  interrupt.handler))
        s1 == [s EXCEPT
                 !.instances = insts,
                 !.threads = Append(@, [pc |-> "none", callback |-> None]),
                 !.pending_queue = push(insts, @, instance,
                                        insts[instance].priority),
                 !.trace = Append(@, Event("push", instance, 0, {}, <<>>,
                                           FALSE))]
        s2 == [s1 EXCEPT !.processing_event = FALSE]
        s3 == process_pending(s2)
    IN [s3 EXCEPT !.ret = TRUE]

\* InterruptSystem.trigger
trigger(self, interrupt_name) ==
    LET s == Acquire(self)
    IN IF s.blocked
       THEN s
       ELSE Release(
            IF TriggerRejected(s, interrupt_name)
            THEN RejectTrigger(s)
            ELSE AcceptTrigger(s, interrupt_name))

\* variant: the call masks, whatever value it is given
mask_interrupt_IgnoresArg(self, interrupt_name, masked) ==
    LET s == Acquire(self)
    IN IF s.blocked
       THEN s
       ELSE Release(
            IF interrupt_name \notin DOMAIN s.interrupts
            THEN [s EXCEPT !.ret = FALSE]
            ELSE [s EXCEPT !.interrupts[interrupt_name].is_masked = TRUE,
                           !.ret = TRUE])

\* InterruptSystem.mask_interrupt
mask_interrupt(self, interrupt_name, masked) ==
    LET s == Acquire(self)
    IN IF s.blocked
       THEN s
       ELSE Release(
            IF interrupt_name \notin DOMAIN s.interrupts
            THEN [s EXCEPT !.ret = FALSE]
            ELSE [s EXCEPT !.interrupts[interrupt_name].is_masked = masked,
                           !.ret = TRUE])

\* variant: changing the global mask also runs an admission step
mask_all_Readmits(self, masked) ==
    LET s == Acquire(self)
    IN IF s.blocked
       THEN s
       ELSE Release(
            process_pending([s EXCEPT !.global_mask = masked, !.ret = None]))

\* InterruptSystem.mask_all
mask_all(self, masked) ==
    LET s == Acquire(self)
    IN IF s.blocked
       THEN s
       ELSE Release(
         [s EXCEPT !.global_mask = masked, !.ret = None])

\* variant: a quiescence barrier, true only when nothing is active either
wait_for_completion_Barrier(s, timeout) ==
    [s EXCEPT !.ret = s.processing_event /\ s.active_stack = <<>>]

\* threading.Event.wait(timeout) on _processing_event: the flag when it is
\* set, False when a finite timeout elapses first
wait_for_completion(s, timeout) == [s EXCEPT !.ret = s.processing_event]

\* InterruptHandler.handle: how the thread leaves the callback
HandleOutcomes(callback) ==
    IF callback # None THEN {"returned", "raised"} ELSE {"nocallback"}

\* variant: no finally clause, an exception out of handle() ends the thread
FinishesAfter_NoFinally == {"returned", "nocallback"}

\* _execute_handler: the ways out of handler.handle() after which the
\* finally clause calls _finish_interrupt (InterruptHandler.handle catches
\* what the callback raises, and try/finally covers the rest)
FinishesAfter == {"returned", "raised", "nocallback"}

(* ---------------------------------------------------------------------- *)
(* The state machine                                                        *)
(* ---------------------------------------------------------------------- *)

\* the fields of self at the start of a call, with an empty trace
(* ---------------------------------------------------------------------- *)
(* InterruptVisualizer (visualization.py)                                   *)
(* ---------------------------------------------------------------------- *)

\* no visualizer was constructed: the methods of the system are its own
NoVisualizer ==
    [patched |-> FALSE, interrupt_events |-> <<>>, active_interrupts |-> {},
     wrapper |-> <<>>]

\* InterruptVisualizer.__init__ / _patch_system: _handle_interrupt and
\* _finish_interrupt of the system are replaced by the wrappers
NewVisualizer == [NoVisualizer EXCEPT !.patched = TRUE]

\* an entry of interrupt_events; the instance stands for the time stamp
VisEvent(insts, i, kind) ==
    [inst |-> i, name |-> insts[i].name, kind |-> kind,
     priority |-> insts[i].priority]

\* handle_wrapper, up to the call of the original _handle_interrupt
handle_wrapper(v, insts, i) ==
    [v EXCEPT !.interrupt_events = Append(@, VisEvent(insts, i, "start")),
              !.active_interrupts = @ \cup {insts[i].name}]

\* finish_wrapper run in one piece, as it is under the lock, up to the call
\* of the original _finish_interrupt
finish_wrapper(v, insts, i) ==
    [v EXCEPT !.interrupt_events = Append(@, VisEvent(insts, i, "end")),
              !.active_interrupts = @ \ {insts[i].name}]

RECURSIVE ObserveTrace(_, _, _, _)

\* what the wrappers did during one call under the lock: handle_wrapper
\* before every admission, finish_wrapper before every finish that follows
\* the admission of an instance without handler (own is the instance whose
\* thread makes the call: its wrapper ran before the lock was taken)
ObserveTrace(v, tr, insts, own) ==
    IF tr = <<>>
    THEN v
    ELSE LET e == Head(tr)
             v1 == IF e.ev = "admit"
                   THEN handle_wrapper(v, insts, e.inst)
                   ELSE IF e.ev = "finish" /\ e.inst # own
                   THEN finish_wrapper(v, insts, e.inst)
                   ELSE v
         IN ObserveTrace(v1, Tail(tr), insts, own)

\* the visualizer after a call of the system: untouched when none is
\* attached; every instance has a place for its thread's finish_wrapper
Observe(v, tr, insts, own) ==
    IF ~v.patched
    THEN v
    ELSE LET v1 == ObserveTrace(v, tr, insts, own)
         IN [v1 EXCEPT !.wrapper =
                 [i \in 1..Len(insts) |->
                     IF i <= Len(v.wrapper) THEN v.wrapper[i] ELSE "none"]]

\* self.handlers.get(name): the callback of the handler stored under name,
\* or NoHandler when nothing is stored
NoHandler == "absent"
HandlersGet(hs, name) == IF name \in DOMAIN hs THEN hs[name] ELSE NoHandler

Self ==
    [interrupts |-> interrupts, handlers |-> handlers,
     pending_queue |-> pending_queue, active_stack |-> active_stack,
     global_mask |-> global_mask, processing_event |-> processing_event,
     instances |-> instances, threads |-> threads,
     last_admission |-> last_admission, ret |-> None, trace |-> <<>>,
     lock |-> lock, thread |-> "caller", blocked |-> FALSE, depth |-> 0]

\* the state a call leaves behind
Commit(r, op, name, arg) ==
    /\ interrupts' = r.interrupts
    /\ handlers' = r.handlers
    /\ pending_queue' = r.pending_queue
    /\ active_stack' = r.active_stack
    /\ global_mask' = r.global_mask
    /\ processing_event' = r.processing_event
    /\ instances' = r.instances
    /\ threads' = r.threads
    /\ last_admission' = r.last_admission
    /\ lock' = r.lock
    /\ lastCall' = Call(op, name, arg, r.ret, r.trace, r.depth)
    /\ visualizer' = Observe(visualizer, r.trace, r.instances,
                             IF op = "finish" THEN arg ELSE 0)
    /\ handler_at_trigger' =
          IF Len(r.instances) > Len(instances)
          THEN Append(handler_at_trigger, HandlersGet(handlers, name))
          ELSE handler_at_trigger

\* InterruptSystem.__init__
SystemInit ==
    /\ interrupts = <<>>
    /\ handlers = <<>>
    /\ pending_queue = NewPriorityQueue
    /\ active_stack = <<>>
    /\ global_mask = FALSE
    /\ processing_event = FALSE
    /\ instances = <<>>
    /\ threads = <<>>
    /\ lock = FreeLock
    /\ last_admission = [entry_empty |-> FALSE, end_empty |-> FALSE]
    /\ lastCall = Call("init", None, None, None, <<>>, 0)
    /\ config_calls = 0
    /\ handler_at_trigger = <<>>

\* a system on its own
Init == SystemInit /\ visualizer = NoVisualizer

\* a system with an InterruptVisualizer constructed on it before use
VisInit == SystemInit /\ visualizer = NewVisualizer

RegisterInterrupt(name, priority, handler) ==
    /\ lock = FreeLock
    /\ config_calls < MaxConfigCalls
    /\ config_calls' = config_calls + 1
    /\ Commit(register_interrupt(Self, name, priority, handler),
              "register_interrupt", name, <<priority, handler>>)

RegisterHandler(name, callback) ==
    /\ lock = FreeLock
    /\ config_calls < MaxConfigCalls
    /\ config_calls' = config_calls + 1
    /\ Commit(register_handler(Self, name, callback),
              "register_handler", name, callback)

Trigger(name) ==
    LET r == trigger(Self, name)
    IN /\ lock = FreeLock
       /\ Len(r.instances) <= MaxTriggers
       /\ Commit(r, "trigger", name, None)
       /\ UNCHANGED config_calls

MaskInterrupt(name, masked) ==
    /\ lock = FreeLock
    /\ config_calls < MaxConfigCalls
    /\ config_calls' = config_calls + 1
    /\ Commit(mask_interrupt(Self, name, masked), "mask_interrupt", name, masked)

MaskAll(masked) ==
    /\ lock = FreeLock
    /\ config_calls < MaxConfigCalls
    /\ config_calls' = config_calls + 1
    /\ Commit(mask_all(Self, masked), "mask_all", None, masked)

WaitForCompletion(timeout) ==
    /\ timeout = None => processing_event
    /\ Commit(wait_for_completion(Self, timeout), "wait_for_completion",
              None, timeout)
    /\ UNCHANGED config_calls

\* the thread of instance i runs handler.handle(interrupt), outside the lock
ExecuteHandler(i) ==
    /\ threads[i].pc = "started"
    /\ \E outcome \in HandleOutcomes(threads[i].callback) :
          /\ threads' = [threads EXCEPT ![i].pc = outcome]
          /\ lastCall' = Call("handle", instances[i].name, i,
                               outcome = "returned", <<>>, 0)
    /\ UNCHANGED <<interrupts, handlers, pending_queue, active_stack,
                   global_mask, processing_event, instances, lock,
                   last_admission, config_calls, visualizer,
                   handler_at_trigger>>

\* a step of finish_wrapper on the thread of instance i: the dispatcher is
\* not touched, the lock is not held, no call of the system has returned
WrapperStep(i, v) ==
    /\ visualizer' = v
    /\ UNCHANGED <<interrupts, handlers, pending_queue, active_stack,
                   global_mask, processing_event, instances, threads, lock,
                   last_admission, lastCall, config_calls,
                   handler_at_trigger>>

\* the finally clause of _execute_handler calls self._finish_interrupt,
\* which is finish_wrapper: it records the 'end' event and tests
\* interrupt.name in self.active_interrupts (one step: what other threads
\* do between the append and the test only moves their entries of
\* interrupt_events behind this one)
WrapperCheck(i) ==
    /\ visualizer.patched
    /\ threads[i].pc \in FinishesAfter
    /\ visualizer.wrapper[i] = "none"
    /\ WrapperStep(i, [visualizer EXCEPT
            !.interrupt_events = Append(@, VisEvent(instances, i, "end")),
            !.wrapper[i] = IF instances[i].name \in visualizer.active_interrupts
                           THEN "found" ELSE "passed"])

\* finish_wrapper: del self.active_interrupts[interrupt.name]; the key may
\* have been deleted since the test, by the thread of another instance of
\* the name, and the del then raises KeyError out of the thread
WrapperDel(i) ==
    /\ visualizer.patched
    /\ visualizer.wrapper[i] = "found"
    /\ WrapperStep(i,
          IF instances[i].name \in visualizer.active_interrupts
          THEN [visualizer EXCEPT !.active_interrupts = @ \ {instances[i].name},
                                  !.wrapper[i] = "passed"]
          ELSE [visualizer EXCEPT !.wrapper[i] = "KeyError"])

\* the thread of instance i is to call the original _finish_interrupt:
\* at once when the method is not patched, after finish_wrapper otherwise
AtOriginalFinish(i) ==
    visualizer.patched => visualizer.wrapper[i] = "passed"

\* the thread of instance i has left handle() on a way that leads to the
\* finally clause, and the lock it needs is free
CanFinish(i) ==
    /\ threads[i].pc \in FinishesAfter
    /\ AtOriginalFinish(i)
    /\ lock = FreeLock

\* the finally clause of _execute_handler: the thread of instance i calls
\* _finish_interrupt; the trace starts with how the thread left handle()
ThreadFinish(i) ==
    /\ CanFinish(i)
    /\ LET r == finish_interrupt(
                   [Self EXCEPT !.thread = i,
                                !.trace = <<Event("finally", i, 0, {}, <<>>,
                                                  threads[i].pc = "raised")>>],
                   i)
       IN Commit([r EXCEPT !.threads[i].pc = "done"], "finish",
                 instances[i].name, i)
    /\ UNCHANGED config_calls

Next ==
    \/ \E n \in Names, p \in Priorities, h \in Callbacks \cup {None} :
          RegisterInterrupt(n, p, h)
    \/ \E n \in Names, c \in Callbacks \cup {None} : RegisterHandler(n, c)
    \/ \E n \in Names : Trigger(n)
    \/ \E n \in Names, m \in BOOLEAN : MaskInterrupt(n, m)
    \/ \E m \in BOOLEAN : MaskAll(m)
    \/ \E t \in {None, "finite"} : WaitForCompletion(t)
    \/ \E i \in 1..Len(instances) : ExecuteHandler(i)
    \/ \E i \in 1..Len(instances) : ThreadFinish(i)

Spec == Init /\ [][Next]_vars

\* the system with the visualizer attached: the calls that go through the
\* dispatcher's lock, the handler threads, and the steps of finish_wrapper
\* on those threads
VisNext ==
    \/ \E n \in Names, p \in Priorities, h \in Callbacks \cup {None} :
          RegisterInterrupt(n, p, h)
    \/ \E n \in Names, c \in Callbacks \cup {None} : RegisterHandler(n, c)
    \/ \E n \in Names : Trigger(n)
    \/ \E n \in Names, m \in BOOLEAN : MaskInterrupt(n, m)
    \/ \E m \in BOOLEAN : MaskAll(m)
    \/ \E i \in 1..Len(instances) : ExecuteHandler(i)
    \/ \E i \in 1..Len(instances) : ThreadFinish(i)
    \/ \E i \in 1..Len(instances) : WrapperCheck(i)
    \/ \E i \in 1..Len(instances) : WrapperDel(i)

VisSpec == VisInit /\ [][VisNext]_vars

\* callables of a caller that registers one callback and later another
MoreCallbacks == Callbacks \cup {"cb2"}

\* the system used by a caller that registers, re-registers and triggers
\* while handlers run: registry calls with two different callbacks, trigger
\* and the handler threads (no mask is set, nobody waits)
ReplaceNext ==
    \/ \E n \in Names, p \in Priorities, h \in MoreCallbacks \cup {None} :
          RegisterInterrupt(n, p, h)
    \/ \E n \in Names, c \in MoreCallbacks \cup {None} : RegisterHandler(n, c)
    \/ \E n \in Names : Trigger(n)
    \/ \E i \in 1..Len(instances) : ExecuteHandler(i)
    \/ \E i \in 1..Len(instances) : ThreadFinish(i)

ReplaceSpec == Init /\ [][ReplaceNext]_vars

\* the threads as _finish_interrupt of thread i can leave them: thread i is
\* done, and pending instances with a handler may have been admitted and
\* their threads started
ThreadsAfterFinish(i) ==
    LET startable == {j \in DOMAIN threads :
                         /\ j # i
                         /\ threads[j].pc = "none"
                         /\ j \in Items(pending_queue)
                         /\ instances[j].name \in DOMAIN handlers}
    IN {[j \in DOMAIN threads |->
            IF j = i THEN [threads[i] EXCEPT !.pc = "done"]
            ELSE IF j \in A
            THEN [pc |-> "started", callback |-> handlers[instances[j].name]]
            ELSE threads[j]] : A \in SUBSET startable}

\* the step ThreadFinish(i) as the threads show it
ThreadFinishes(i) ==
    /\ i \in DOMAIN threads
    /\ CanFinish(i)
    /\ threads' \in ThreadsAfterFinish(i)

\* a handler thread that stands at the lock of _finish_interrupt gets the
\* lock when it stays free: threads are scheduled and RLock.acquire returns
\* once no other thread holds the lock
ThreadFair(i) == WF_threads(ThreadFinishes(i))

FairSpec == Spec /\ \A i \in 1..MaxTriggers : ThreadFair(i)

\* a started handler thread runs, and the callback it calls comes to an
\* end, by returning or by raising
HandlerTerminates(i) == WF_threads(i \in DOMAIN threads /\ ExecuteHandler(i))

\* fair thread scheduling with callbacks that terminate
LiveSpec == FairSpec /\ \A i \in 1..MaxTriggers : HandlerTerminates(i)

(* ---------------------------------------------------------------------- *)
(* Properties                                                               *)
(* ---------------------------------------------------------------------- *)

\* the positions of the events of one kind in a call's trace
TraceEvents(tr, ev) == {k \in 1..Len(tr) : tr[k].ev = ev}

\* the instances a call admitted
Admitted(tr) == {tr[k].inst : k \in TraceEvents(tr, "admit")}

\* what the call is told to accept: no global mask, a registered name, no
\* mask of its own (evaluated in the state the call starts in)
Accepts(name) ==
    /\ ~global_mask
    /\ name \in DOMAIN interrupts
    /\ ~interrupts[name].is_masked

\* the dispatcher's own fields and the objects it created
dispatcher == <<interrupts, handlers, pending_queue, active_stack,
                global_mask, processing_event, instances, threads>>

\* C1: trigger(name) returns True exactly when, in the state it runs in, the
\* global mask is clear, name is registered and its own mask is clear, and
\* False otherwise; a call that returns True has pushed exactly one new
\* instance to the pending queue.
C1_TriggerTrueIffAccepted ==
    [][lastCall'.op = "trigger" =>
         /\ lastCall'.ret = Accepts(lastCall'.name)
         /\ lastCall'.ret = TRUE =>
              LET new == Len(instances) + 1
                  pushes == TraceEvents(lastCall'.trace, "push")
              IN /\ Cardinality(pushes) = 1
                 /\ \A k \in pushes : lastCall'.trace[k].inst = new
                 /\ Len(instances') = new
                 /\ instances'[new].name = lastCall'.name
                 /\ pending_queue'.entry_counter = pending_queue.entry_counter + 1
                 /\ Items(pending_queue') \subseteq Items(pending_queue) \cup {new}
                 /\ new \in Items(pending_queue') \cup Admitted(lastCall'.trace)]_vars

\* C1 witness: an accepted trigger whose new instance sits in the pending queue
C1_Witness ==
    /\ lastCall.op = "trigger"
    /\ lastCall.ret = TRUE
    /\ Len(instances) \in Items(pending_queue)

\* C2: a rejected trigger (global mask set, unknown name or own mask set)
\* returns False and changes nothing: queue, stack, sequence counter,
\* registry, masks and completion event stay as they were and no handler
\* thread is started.
C2_RejectedTriggerNoChange ==
    [][(lastCall'.op = "trigger" /\ ~Accepts(lastCall'.name)) =>
         /\ lastCall'.ret = FALSE
         /\ lastCall'.trace = <<>>
         /\ UNCHANGED dispatcher]_vars

\* C2 witness: a trigger rejected by the interrupt's own mask while work is
\* active and pending
C2_Witness ==
    /\ lastCall.op = "trigger"
    /\ lastCall.ret = FALSE
    /\ ~global_mask
    /\ lastCall.name \in DOMAIN interrupts
    /\ interrupts[lastCall.name].is_masked
    /\ active_stack # <<>>
    /\ ~is_empty(pending_queue)

\* C3: an instance goes from the pending queue to the active stack only in
\* an admission where the stack is empty or its priority is strictly
\* greater than that of the stack's last element at that moment.
C3_AdmitOnlyStrictlyHigher ==
    [][/\ \A k \in TraceEvents(lastCall'.trace, "admit") :
            LET e == lastCall'.trace[k]
            IN \/ e.stack = <<>>
               \/ instances'[e.inst].priority
                     > instances'[e.stack[Len(e.stack)]].priority
       /\ \A i \in 1..Len(instances') :
            \/ i \in Items(pending_queue')
            \/ i \in 1..Len(instances) /\ i \notin Items(pending_queue)
            \/ i \in Admitted(lastCall'.trace)
       /\ \A i \in 1..Len(instances') :
            (Contains(active_stack', i) /\ ~Contains(active_stack, i))
               => i \in Admitted(lastCall'.trace)]_vars

\* C3 witness: a trigger left its instance queued behind a stack top of
\* equal priority
C3_Witness ==
    /\ lastCall.op = "trigger"
    /\ lastCall.ret = TRUE
    /\ TraceEvents(lastCall.trace, "admit") = {}
    /\ active_stack # <<>>
    /\ Len(instances) \in Items(pending_queue)
    /\ instances[Len(instances)].priority
          = instances[active_stack[Len(active_stack)]].priority

\* C4 (as amended): an accepted trigger that finds the active stack empty
\* admits its instance within the call and leaves the pending queue empty;
\* with a handler registered under the name the stack then holds exactly
\* that instance, with none the instance is finished in the same call and
\* the stack is empty again.
C4_ImmediateAdmission ==
    [][(lastCall'.op = "trigger" /\ lastCall'.ret = TRUE /\ active_stack = <<>>) =>
         LET new == Len(instances')
         IN /\ new \in Admitted(lastCall'.trace)
            /\ is_empty(pending_queue')
            /\ IF lastCall'.name \in DOMAIN handlers
               THEN active_stack' = <<new>> /\ instances'[new].is_active
               ELSE active_stack' = <<>> /\ ~instances'[new].is_active]_vars

\* C4 witness: the first trigger of a system, for a name with a handler,
\* has put its instance alone on the stack
C4_Witness ==
    /\ lastCall.op = "trigger"
    /\ lastCall.ret = TRUE
    /\ Len(instances) = 1
    /\ lastCall.name \in DOMAIN handlers
    /\ active_stack = <<1>>
    /\ is_empty(pending_queue)

\* C4 as stated: after registrations only, with or without a handler, the
\* single accepted trigger ends with the stack holding exactly its instance
\* and the pending queue empty.
C4_Original ==
    [][(lastCall'.op = "trigger" /\ lastCall'.ret = TRUE
          /\ active_stack = <<>> /\ instances = <<>>) =>
         /\ active_stack' = <<Len(instances')>>
         /\ is_empty(pending_queue')]_vars

\* C5 (as amended): _process_pending is not a drain loop: it runs once per
\* accepted trigger and once per _finish_interrupt, each invocation admits
\* at most one instance, and a call admits nothing after an instance it
\* handed to a handler thread; only the synchronous finish of an instance
\* without a handler, which runs a nested admission step, lets one call
\* admit more than one.
C5_OneAdmissionPerStep ==
    LET tr == lastCall.trace
        admits == TraceEvents(tr, "admit")
    IN /\ \A k1, k2 \in admits :
            k1 < k2 => \E k \in TraceEvents(tr, "pp") : k1 < k /\ k < k2
       /\ \A k1, k2 \in admits :
            k1 < k2 => \E k \in TraceEvents(tr, "finish") :
                          k1 < k /\ k < k2 /\ tr[k].inst = tr[k1].inst
       /\ \A k \in TraceEvents(tr, "start") : \A k2 \in admits : k2 < k
       /\ Cardinality(TraceEvents(tr, "start")) <= 1
       /\ Cardinality(TraceEvents(tr, "pp"))
             = Cardinality(TraceEvents(tr, "push"))
                  + Cardinality(TraceEvents(tr, "finish"))

\* C5 witness: a finish with two instances pending admitted exactly one of
\* them (it has a handler) and left the other queued
C5_Witness ==
    /\ lastCall.op = "finish"
    /\ Cardinality(TraceEvents(lastCall.trace, "admit")) = 1
    /\ Cardinality(TraceEvents(lastCall.trace, "start")) = 1
    /\ \A k \in TraceEvents(lastCall.trace, "admit") :
          Cardinality(lastCall.trace[k].pend) = 2
    /\ ~is_empty(pending_queue)

\* C5 as stated: no call moves more than one instance from the pending
\* queue to the active stack, handler or not.
C5_Original == Cardinality(TraceEvents(lastCall.trace, "admit")) <= 1

\* C6 (as amended): the completion event is true exactly when the most
\* recent _process_pending invocation found the pending queue empty on
\* entry; an accepted trigger makes it false until such an invocation.
C6_SignalIffLastStepFoundEmpty == processing_event = last_admission.entry_empty

\* C6 witness: after accepted work, an admission step found the queue empty
\* and the event is set
C6_Witness ==
    /\ processing_event
    /\ last_admission.entry_empty
    /\ lastCall.op = "finish"
    /\ Len(instances) >= 1

\* C6 as stated: the completion event is true exactly when the pending
\* queue was empty at the end of the most recent admission step.
C6_Original == processing_event = last_admission.end_empty

C8_FifoWithinPriority ==
    LET tr == lastCall.trace
        admits == TraceEvents(tr, "admit")
    IN /\ \A i, j \in 1..Len(instances) :
            (i < j /\ instances[i].priority = instances[j].priority
                   /\ j \notin Items(pending_queue))
               => i \notin Items(pending_queue)
       /\ \A k1, k2 \in admits :
            (k1 < k2 /\ instances[tr[k1].inst].priority
                          = instances[tr[k2].inst].priority)
               => tr[k1].inst < tr[k2].inst
       /\ \A k \in admits : \A x, y \in tr[k].pend :
            (x[3] = tr[k].inst /\ y[3] # tr[k].inst
               /\ instances[x[3]].priority = instances[y[3]].priority)
               => x[2] < y[2]

\* C8 witness: an admission chose between two pending instances of equal
\* priority
C8_Witness ==
    \E k \in TraceEvents(lastCall.trace, "admit") :
       \E y \in lastCall.trace[k].pend :
          /\ y[3] # lastCall.trace[k].inst
          /\ instances[y[3]].priority
                = instances[lastCall.trace[k].inst].priority

\* C9: the instance admitted is the maximum of the pending queue under
\* (priority descending, arrival sequence ascending), pop removes the very
\* instance peek returned, and so an instance is never admitted while one
\* of higher priority is pending with it.
C9_AdmitsQueueMaximum ==
    LET tr == lastCall.trace
    IN \A k \in TraceEvents(tr, "admit") :
          /\ tr[k].popped = tr[k].inst
          /\ tr[k].inst \in {x[3] : x \in tr[k].pend}
          /\ \A x, y \in tr[k].pend :
                (x[3] = tr[k].inst /\ y[3] # tr[k].inst) =>
                   \/ instances[x[3]].priority > instances[y[3]].priority
                   \/ /\ instances[x[3]].priority = instances[y[3]].priority
                      /\ x[2] < y[2]
          /\ \A i \in Items(pending_queue) :
                instances[tr[k].inst].priority >= instances[i].priority

\* C9 witness: an admission took the higher-priority instance although a
\* lower-priority one had been triggered before it
C9_Witness ==
    \E k \in TraceEvents(lastCall.trace, "admit") :
       \E x, y \in lastCall.trace[k].pend :
          /\ x[3] = lastCall.trace[k].inst
          /\ y[2] < x[2]
          /\ instances[y[3]].priority < instances[x[3]].priority

\* C10: mask_interrupt and mask_all change mask flags only: pending queue
\* (with its arrival counter), active stack, every instance's is_active,
\* the completion event, the handlers and the registered priorities stay
\* as they were, and no admission step runs.
C10_MaskChangesOnlyMasks ==
    [][lastCall'.op \in {"mask_interrupt", "mask_all"} =>
         /\ UNCHANGED <<pending_queue, active_stack, instances, threads,
                        processing_event, handlers, last_admission>>
         /\ lastCall'.trace = <<>>
         /\ DOMAIN interrupts' = DOMAIN interrupts
         /\ \A n \in DOMAIN interrupts :
               interrupts'[n].priority = interrupts[n].priority]_vars

\* C10 witness: mask_all(True) was called while an instance was active and
\* another pending
C10_Witness ==
    /\ lastCall.op = "mask_all"
    /\ lastCall.arg = TRUE
    /\ global_mask
    /\ active_stack # <<>>
    /\ ~is_empty(pending_queue)

\* the active stack once instance x is taken off it
StackWithout(x) ==
    IF Contains(active_stack, x) THEN Remove(active_stack, x) ELSE active_stack

\* the instance at the head of the pending queue may be admitted once x is
\* off the stack: the stack is then empty or its last element is lower
HeadEligibleAfter(x) ==
    /\ ~is_empty(pending_queue)
    /\ LET rest == StackWithout(x)
       IN \/ rest = <<>>
          \/ instances[peek(pending_queue)].priority
                > instances[rest[Len(rest)]].priority

\* a mask is set that would reject a new trigger of instance i's name
MaskedNow(i) == global_mask \/ interrupts[instances[i].name].is_masked

\* C11: masking is not retroactive: mask calls leave pending and active
\* instances where they are, a finish admits the head of the pending queue
\* when it is eligible even though the global mask or its own mask is set,
\* and the thread of a masked instance still runs its handler and finishes.
C11_MaskNotRetroactive ==
    [][/\ lastCall'.op \in {"mask_interrupt", "mask_all"} =>
             /\ Items(pending_queue') = Items(pending_queue)
             /\ active_stack' = active_stack
       /\ (lastCall'.op = "finish" /\ HeadEligibleAfter(lastCall'.arg)
             /\ MaskedNow(peek(pending_queue))) =>
             /\ peek(pending_queue) \in Admitted(lastCall'.trace)
             /\ peek(pending_queue) \notin Items(pending_queue')
       /\ \A i \in 1..Len(instances) :
             (MaskedNow(i) /\ threads[i].pc # "none" /\ threads[i].pc # "done"
                /\ threads'[i] # threads[i]) =>
                \/ lastCall'.op = "handle" /\ threads'[i].pc \in FinishesAfter
                \/ /\ lastCall'.op = "finish" /\ threads'[i].pc = "done"
                   /\ ~Contains(active_stack', i)]_vars

\* C11 witness: an instance triggered before mask_all(True) was admitted by
\* a finish while the global mask was set
C11_Witness ==
    /\ lastCall.op = "finish"
    /\ global_mask
    /\ \E i \in Admitted(lastCall.trace) :
          /\ threads[i].pc = "started"
          /\ Contains(active_stack, i)

\* the elements of seq that satisfy keep, in their order
RECURSIVE Filter(_, _)
Filter(seq, keep) ==
    IF seq = <<>>
    THEN <<>>
    ELSE IF seq[1] \in keep
    THEN <<seq[1]>> \o Filter(Tail(seq), keep)
    ELSE Filter(Tail(seq), keep)

\* the elements of a sequence
Elems(seq) == {seq[k] : k \in 1..Len(seq)}

\* C12: _finish_interrupt(X) takes exactly X off the active stack wherever
\* it sits; the other active instances stay, in the same relative order,
\* and whatever the same call admits is put after them.
C12_FinishRemovesOnlyItself ==
    [][lastCall'.op = "finish" =>
         LET x == lastCall'.arg
             others == Filter(active_stack, Elems(active_stack) \ {x})
         IN /\ Contains(active_stack, x)
            /\ ~Contains(active_stack', x)
            /\ Len(others) = Len(active_stack) - 1
            /\ Len(active_stack') >= Len(others)
            /\ SubSeq(active_stack', 1, Len(others)) = others
            /\ \A k \in (Len(others) + 1)..Len(active_stack') :
                  active_stack'[k] \in Admitted(lastCall'.trace)]_vars

\* C12 witness: A was admitted before B, A finished first and B is still
\* the top of the stack
C12_Witness ==
    /\ lastCall.op = "finish"
    /\ TraceEvents(lastCall.trace, "admit") = {}
    /\ Len(active_stack) = 1
    /\ lastCall.arg < active_stack[1]
    /\ \E k \in TraceEvents(lastCall.trace, "finish") :
          lastCall.trace[k].stack = <<lastCall.arg, active_stack[1]>>

\* C13: every admitted instance is finished exactly once whatever its
\* handler does: after a normal return, a raise or a missing callback the
\* thread can always go on to its _finish_interrupt (it is never stuck on
\* the stack), an instance without handler is finished in the call that
\* admitted it, a finish only ever hits an instance that is still on the
\* stack, and a finished instance is off the stack with is_active False.
C13_FinishedExactlyOnce ==
    LET tr == lastCall.trace
        finishes == TraceEvents(tr, "finish")
    IN /\ \A i \in 1..Len(instances) :
            LET pc == threads[i].pc
                live == Contains(active_stack, i) /\ instances[i].is_active
            IN /\ pc = "started" => live
               /\ pc \in {"returned", "raised", "nocallback"} =>
                     live /\ CanFinish(i)
               /\ pc \in {"done", "none"} =>
                     ~Contains(active_stack, i) /\ ~instances[i].is_active
       /\ \A k \in finishes : Contains(tr[k].stack, tr[k].inst)
       /\ \A k1, k2 \in finishes : tr[k1].inst = tr[k2].inst => k1 = k2
       /\ \A k \in TraceEvents(tr, "admit") :
            \/ \E k2 \in TraceEvents(tr, "start") :
                  k2 = k + 1 /\ tr[k2].inst = tr[k].inst
            \/ \E k2 \in finishes : k2 = k + 1 /\ tr[k2].inst = tr[k].inst
       /\ lastCall.op = "finish" => threads[lastCall.arg].pc = "done"

\* C13 witness: the callback of an instance raised, its thread has called
\* _finish_interrupt and the instance is off the stack
C13_Witness ==
    /\ lastCall.op = "finish"
    /\ lastCall.trace[1].ev = "finally"
    /\ lastCall.trace[1].empty = TRUE
    /\ threads[lastCall.arg].pc = "done"
    /\ ~Contains(active_stack, lastCall.arg)
    /\ ~instances[lastCall.arg].is_active

\* C14: an instance carries the priority its definition had when it was
\* triggered: no later step, re-registration included, changes the priority
\* of an existing instance, its key or place in the pending queue, or the
\* active stack.
C14_PrioritySnapshot ==
    [][/\ \A i \in 1..Len(instances) :
            /\ instances'[i].priority = instances[i].priority
            /\ instances'[i].name = instances[i].name
       /\ (lastCall'.op = "trigger" /\ lastCall'.ret = TRUE) =>
            instances'[Len(instances')].priority
               = interrupts[lastCall'.name].priority
       /\ \A e \in Entries(pending_queue') : e[1] = -instances'[e[3]].priority
       /\ lastCall'.op = "register_interrupt" =>
            /\ UNCHANGED <<instances, pending_queue, active_stack, threads>>
            /\ lastCall'.trace = <<>>]_vars

\* C14 witness: a name was re-registered with another priority while an
\* instance of it was pending and one active; both keep the old priority
C14_Witness ==
    /\ lastCall.op = "register_interrupt"
    /\ \E i \in Items(pending_queue) :
          /\ instances[i].name = lastCall.name
          /\ instances[i].priority # interrupts[lastCall.name].priority
    /\ \E j \in Elems(active_stack) :
          /\ instances[j].name = lastCall.name
          /\ instances[j].priority # interrupts[lastCall.name].priority

\* C15: register_interrupt on a name already registered changes the priority
\* of that definition and nothing else (the set of definitions, mask flags,
\* callbacks even when a handler is passed, pending queue, active stack,
\* instances, threads and completion signal stay), and returns the
\* definition of that name; with the priority it already has, the call
\* changes no dispatcher state at all.
C15_ReRegisterUpdatesPriorityOnly ==
    [][(lastCall'.op = "register_interrupt"
        /\ lastCall'.name \in DOMAIN interrupts) =>
          LET name == lastCall'.name
              priority == lastCall'.arg[1]
          IN /\ interrupts' = [interrupts EXCEPT ![name].priority = priority]
             /\ DOMAIN interrupts' = DOMAIN interrupts
             /\ interrupts'[name].is_masked = interrupts[name].is_masked
             /\ lastCall'.ret = name
             /\ lastCall'.trace = <<>>
             /\ UNCHANGED <<handlers, pending_queue, active_stack, global_mask,
                            processing_event, instances, threads, lock>>
             /\ priority = interrupts[name].priority =>
                   UNCHANGED dispatcher]_vars

\* C15 witness: a known name without callback was re-registered with a
\* handler argument; it has the priority passed and still no callback
C15_Witness ==
    /\ lastCall.op = "register_interrupt"
    /\ lastCall.arg[2] # None
    /\ lastCall.name \in DOMAIN interrupts
    /\ lastCall.name \notin DOMAIN handlers
    /\ interrupts[lastCall.name].priority = lastCall.arg[1]

\* C16: when the only active instance finishes while instances are pending,
\* that same finish call admits the head of the pending queue: the first
\* admission of the call is of that head, made on an empty stack, and when
\* the head has a callback the call ends with it as the only active
\* instance.  A trigger of equal priority while the instance was active
\* admitted nothing (10 > 10 is false), which is how the head came to wait.
C16_FinishReadmits ==
    [][/\ (/\ lastCall'.op = "finish"
           /\ active_stack = <<lastCall'.arg>>
           /\ ~is_empty(pending_queue)) =>
             LET tr == lastCall'.trace
                 admits == TraceEvents(tr, "admit")
                 head == peek(pending_queue)
             IN /\ admits # {}
                /\ LET k == CHOOSE k \in admits : \A k2 \in admits : k <= k2
                   IN /\ tr[k].inst = head
                      /\ tr[k].stack = <<>>
                /\ head \notin Items(pending_queue')
                /\ instances[head].name \in DOMAIN handlers =>
                      /\ active_stack' = <<head>>
                      /\ threads'[head].pc = "started"
                      /\ instances'[head].is_active
       /\ (/\ lastCall'.op = "trigger"
           /\ lastCall'.ret = TRUE
           /\ Len(active_stack) = 1
           /\ interrupts[lastCall'.name].priority
                 = instances[active_stack[1]].priority) =>
             /\ active_stack' = active_stack
             /\ Len(instances') \in Items(pending_queue')]_vars

\* C16 witness: a = 10 and b = 10, both with callbacks, a triggered before
\* b; a has finished and that call left b as the only active instance
C16_Witness ==
    /\ lastCall.op = "finish"
    /\ Len(instances) >= 2
    /\ lastCall.arg = 1
    /\ instances[1].priority = 10
    /\ instances[2].priority = 10
    /\ instances[1].name # instances[2].name
    /\ threads[1].pc = "done"
    /\ threads[2].pc = "started"
    /\ active_stack = <<2>>
    /\ 2 \in Admitted(lastCall.trace)

\* thread i is at the lock of its _finish_interrupt / has been through it
AtLock(i) == i \in DOMAIN threads /\ threads[i].pc \in FinishesAfter
ThroughLock(i) == i \in DOMAIN threads /\ threads[i].pc = "done"

\* C17: the critical section cannot deadlock: every call that took the
\* dispatcher lock has released it when it returns, nested acquisitions on
\* the same thread included (finish -> admission -> finish of an instance
\* without handler -> admission), so the lock is free between calls; and
\* every handler thread that asks for the lock, after its callback returned
\* or raised, eventually gets through _finish_interrupt: a thread at the
\* lock leaves it only by getting through, and from some point on no
\* thread is left waiting at the lock.
C17_NoDeadlock ==
    /\ [](lock = FreeLock)
    /\ [][\A i \in DOMAIN threads :
             AtLock(i) => (AtLock(i)' \/ ThroughLock(i)')]_vars
    /\ <>[](\A i \in DOMAIN threads : ~AtLock(i))

\* C17 witness: a handler that raised has been through _finish_interrupt,
\* whose admission step admitted an instance without handler and so took
\* the lock five deep on one thread; the lock is free again
C17_Witness ==
    /\ lastCall.op = "finish"
    /\ lastCall.trace[1].empty
    /\ lastCall.depth >= 5
    /\ threads[lastCall.arg].pc = "done"
    /\ lock = FreeLock

\* C18: callbacks run outside the critical section and off the caller's
\* thread: a callback runs only in a step of the thread started for its
\* instance at admission, a step that neither holds nor takes the dispatcher
\* lock and changes nothing of the dispatcher but that thread; and a call
\* that admitted instances (trigger, _finish_interrupt) returns with the
\* thread of each one it started not yet through its callback.
C18_CallbacksOutsideLock ==
    [][/\ lastCall'.op = "handle" =>
            LET i == lastCall'.arg
            IN /\ threads[i].pc = "started"
               /\ lastCall'.ret => threads[i].callback # None
               /\ lock = FreeLock
               /\ lock' = FreeLock
               /\ lastCall'.depth = 0
               /\ UNCHANGED <<interrupts, handlers, pending_queue, active_stack,
                              global_mask, processing_event, instances>>
               /\ \A j \in DOMAIN threads : j # i => threads'[j] = threads[j]
       /\ \A i \in DOMAIN threads :
            (threads[i].pc = "started" /\ threads'[i].pc # "started") =>
                lastCall'.op = "handle" /\ lastCall'.arg = i
       /\ lastCall'.op \in {"trigger", "finish"} =>
            \A k \in TraceEvents(lastCall'.trace, "start") :
               LET i == lastCall'.trace[k].inst
               IN /\ threads'[i].pc = "started"
                  /\ i \in DOMAIN threads => threads[i].pc = "none"
                  /\ Contains(active_stack', i)]_vars

\* C18 witness: the thread of an active instance has run its callback with
\* the lock free; the instance is still on the stack, its finish to come
C18_Witness ==
    /\ lastCall.op = "handle"
    /\ lastCall.ret = TRUE
    /\ lock = FreeLock
    /\ threads[lastCall.arg].pc = "returned"
    /\ Contains(active_stack, lastCall.arg)
    /\ instances[lastCall.arg].is_active

\* how often instance i is held: entries of the pending queue that carry it
\* plus positions of the active stack that hold it
Holdings(pq, stack, i) ==
    Cardinality({k \in 1..Len(pq.queue) : pq.queue[k][3] = i})
      + Cardinality({k \in 1..Len(stack) : stack[k] = i})

\* C19: between calls every instance trigger accepted is in exactly one
\* place, the pending queue (one entry), the active stack (one position) or
\* finished (neither), and is_active is True exactly on the stack.  A call
\* moves an instance only forward: out of the queue by an admission, off
\* the stack by its own finish (the finish call of its thread, or the finish
\* that follows at once the admission of an instance without handler), and
\* never back; only an accepted trigger adds an instance, exactly one.
C19_InstanceConservation ==
    [][/\ lock' = FreeLock
       /\ Items(pending_queue') \cup Elems(active_stack') \subseteq 1..Len(instances')
       /\ \A i \in 1..Len(instances') :
            /\ Holdings(pending_queue', active_stack', i) <= 1
            /\ instances'[i].is_active <=> Contains(active_stack', i)
       /\ Len(instances') =
             Len(instances)
               + (IF lastCall'.op = "trigger" /\ lastCall'.ret = TRUE THEN 1 ELSE 0)
       /\ \A i \in 1..Len(instances') :
            LET tr == lastCall'.trace
                new == i > Len(instances)
                wasPending == ~new /\ i \in Items(pending_queue)
                wasActive == ~new /\ Contains(active_stack, i)
                isPending == i \in Items(pending_queue')
                isActive == Contains(active_stack', i)
                admitted == \E k \in TraceEvents(tr, "admit") : tr[k].inst = i
                finished == \E k \in TraceEvents(tr, "finish") : tr[k].inst = i
            IN /\ new => (isPending /\ ~admitted) \/ (admitted /\ (isActive \/ finished))
               /\ wasPending =>
                    \/ isPending /\ ~admitted /\ ~finished
                    \/ ~isPending /\ admitted /\ (isActive \/ finished)
               /\ wasActive =>
                    /\ ~isPending
                    /\ ~admitted
                    /\ ~isActive <=> finished
                    /\ finished => lastCall'.op = "finish" /\ lastCall'.arg = i
               /\ (~new /\ ~wasPending /\ ~wasActive) =>
                    ~isPending /\ ~isActive /\ ~admitted]_vars

\* C19 witness: three instances between calls, one finished, one on the
\* active stack and one in the pending queue
C19_Witness ==
    /\ lock = FreeLock
    /\ Len(instances) = 3
    /\ \E i, j, k \in 1..3 :
          /\ threads[i].pc = "done"
          /\ Holdings(pending_queue, active_stack, i) = 0
          /\ active_stack = <<j>>
          /\ instances[j].is_active
          /\ Items(pending_queue) = {k}
          /\ ~instances[k].is_active
          /\ i # j /\ j # k /\ i # k

\* C20: mask_interrupt(name, masked) returns False exactly when name is not
\* registered and then changes nothing; for a registered name it returns
\* True and sets the mask of that definition to the value given, leaving
\* the masks of the other definitions, every priority and the global mask
\* as they were.
C20_MaskInterruptReturn ==
    [][lastCall'.op = "mask_interrupt" =>
         LET name == lastCall'.name
             masked == lastCall'.arg
         IN /\ lastCall'.ret = (name \in DOMAIN interrupts)
            /\ global_mask' = global_mask
            /\ name \notin DOMAIN interrupts => UNCHANGED dispatcher
            /\ name \in DOMAIN interrupts =>
                 /\ DOMAIN interrupts' = DOMAIN interrupts
                 /\ interrupts'[name].is_masked = masked
                 /\ interrupts'[name].priority = interrupts[name].priority
                 /\ \A n \in DOMAIN interrupts \ {name} :
                       interrupts'[n] = interrupts[n]]_vars

\* C20 witness: mask_interrupt(name, False) on a registered name returned
\* True and left the name and the dispatcher unmasked
C20_Witness ==
    /\ lastCall.op = "mask_interrupt"
    /\ lastCall.arg = FALSE
    /\ lastCall.ret = TRUE
    /\ lastCall.name \in DOMAIN interrupts
    /\ ~interrupts[lastCall.name].is_masked
    /\ ~global_mask

\* the entries of interrupt_events of one kind for instance i
VisEventsOf(i, kind) ==
    {k \in 1..Len(visualizer.interrupt_events) :
        /\ visualizer.interrupt_events[k].inst = i
        /\ visualizer.interrupt_events[k].kind = kind}

\* C21: with the visualizer attached the dispatcher goes the way it goes
\* without it: a handler thread that left handle() still gets to the
\* original _finish_interrupt, so every recorded 'end' belongs to a finish
\* that happened or can still happen; and the visualizer holds one 'start'
\* for every admitted instance, at most one 'end', the 'start' first.
C21_VisualizerTransparent ==
    visualizer.patched =>
       \A i \in 1..Len(instances) :
          LET starts == VisEventsOf(i, "start")
              ends == VisEventsOf(i, "end")
              admitted == i \notin Items(pending_queue)
              finished == admitted /\ ~Contains(active_stack, i)
          IN /\ Cardinality(starts) = (IF admitted THEN 1 ELSE 0)
             /\ Cardinality(ends) <= 1
             /\ \A k \in ends : \E k0 \in starts : k0 < k
             /\ finished => Cardinality(ends) = 1
             /\ threads[i].pc \in FinishesAfter =>
                  visualizer.wrapper[i] \in {"none", "found", "passed"}
             /\ (ends # {} /\ ~finished) =>
                  /\ threads[i].pc \in FinishesAfter
                  /\ visualizer.wrapper[i] \in {"found", "passed"}

\* C22: an instance admitted while no handler is registered under its name
\* gets no thread; it is put on the active stack and taken off again by
\* _finish_interrupt within the same call, under the lock the call holds, so
\* it is on the stack in no state between calls; and that finish runs the
\* admission step again before the call returns.
C22_MissingHandler ==
    [][/\ \A k \in TraceEvents(lastCall'.trace, "admit") :
            LET tr == lastCall'.trace
                i == tr[k].inst
            IN instances'[i].name \notin DOMAIN handlers =>
                 /\ threads'[i].pc = "none"
                 /\ \A k2 \in TraceEvents(tr, "start") : tr[k2].inst # i
                 /\ k + 2 <= Len(tr)
                 /\ tr[k + 1].ev = "finish"
                 /\ tr[k + 1].inst = i
                 /\ tr[k + 1].stack = Append(tr[k].stack, i)
                 /\ tr[k + 2].ev = "pp"
                 /\ lastCall'.depth >= 4
                 /\ ~Contains(active_stack', i)
                 /\ ~instances'[i].is_active
                 /\ i \notin Items(pending_queue')
       /\ \A i \in 1..Len(instances') :
            threads'[i].pc = "none" => ~Contains(active_stack', i)
       /\ lock' = FreeLock]_vars

\* C22 witness: a finish call admitted an instance without handler and
\* finished it, then admitted the next pending instance, which has one
C22_Witness ==
    /\ lastCall.op = "finish"
    /\ \E k \in TraceEvents(lastCall.trace, "admit") :
          LET tr == lastCall.trace
              i == tr[k].inst
          IN /\ instances[i].name \notin DOMAIN handlers
             /\ threads[i].pc = "none"
             /\ ~Contains(active_stack, i)
             /\ \E k3 \in TraceEvents(tr, "admit") :
                   /\ k3 > k
                   /\ Contains(active_stack, tr[k3].inst)
                   /\ threads[tr[k3].inst].pc = "started"

\* the priorities on the active stack, bottom first
StackPriorities == [k \in 1..Len(active_stack) |-> instances[active_stack[k]].priority]

\* C23: in every state the active stack is strictly increasing in priority
\* from bottom to top: its top has the maximum priority of the active
\* instances, no two active instances have the same priority, and there are
\* no more active instances than distinct priorities among the instances
\* accepted so far.
C23_StackStrictlyIncreasing ==
    LET prio == StackPriorities
        n == Len(active_stack)
    IN /\ \A k \in 1..(n - 1) : prio[k] < prio[k + 1]
       /\ \A k \in 1..n : prio[k] <= prio[n]
       /\ \A k1, k2 \in 1..n : prio[k1] = prio[k2] => k1 = k2
       /\ n <= Cardinality({instances[i].priority : i \in 1..Len(instances)})

\* C23 witness: two active instances, with an instance pending whose
\* priority is that of the top
C23_Witness ==
    /\ Len(active_stack) = 2
    /\ StackPriorities[1] < StackPriorities[2]
    /\ \E i \in Items(pending_queue) :
          instances[i].priority = StackPriorities[2]

\* C24: arrival sequence numbers grow and are not reused: the counter goes
\* up by one in a trigger that is accepted and stays in every other step
\* (rejected triggers, admissions and their pops, finishes, register and
\* mask calls); the k-th accepted instance carries number k - 1, which is
\* below the counter and above the number of every instance accepted
\* before it; no two entries of the queue carry the same number.
C24_SequenceNumbers ==
    [][LET tr == lastCall'.trace
           seen == Entries(pending_queue')
                     \cup UNION {tr[k].pend : k \in TraceEvents(tr, "admit")}
       IN /\ pending_queue'.entry_counter =
                pending_queue.entry_counter
                  + (IF lastCall'.op = "trigger" /\ lastCall'.ret = TRUE
                     THEN 1 ELSE 0)
          /\ pending_queue'.entry_counter = Len(instances')
          /\ \A e \in seen :
                /\ e[2] = e[3] - 1
                /\ e[2] < pending_queue'.entry_counter
          /\ \A e1, e2 \in seen : e1[2] = e2[2] => e1 = e2]_vars

\* C24 witness: the first instance has left queue and stack; the third
\* accepted instance waits in the queue under number 2
C24_Witness ==
    /\ lastCall.op = "trigger"
    /\ lastCall.ret = TRUE
    /\ Len(instances) = 3
    /\ ~Contains(active_stack, 1) /\ 1 \notin Items(pending_queue)
    /\ \E e \in Entries(pending_queue) : e[3] = 3 /\ e[2] = 2
    /\ pending_queue.entry_counter = 3

\* C25: register_handler(name, callback) stores the callback under name,
\* in place of the one stored before if any, whether or not name has a
\* definition, and creates no definition; queue, stack, masks, instances and
\* completion signal stay.  A name with a stored callback but no definition
\* is still rejected by trigger; register_interrupt without handler argument
\* keeps the stored callback, and the thread of an instance admitted
\* afterwards gets the callback stored under its name.
C25_RegisterHandlerAnyName ==
    [][/\ lastCall'.op = "register_handler" =>
            /\ DOMAIN handlers' = DOMAIN handlers \cup {lastCall'.name}
            /\ handlers'[lastCall'.name] = lastCall'.arg
            /\ \A n \in DOMAIN handlers \ {lastCall'.name} :
                  handlers'[n] = handlers[n]
            /\ lastCall'.trace = <<>>
            /\ UNCHANGED <<interrupts, pending_queue, active_stack, global_mask,
                           processing_event, instances, threads, lock>>
       /\ (lastCall'.op = "trigger" /\ lastCall'.name \notin DOMAIN interrupts) =>
            /\ lastCall'.ret = FALSE
            /\ UNCHANGED dispatcher
       /\ (lastCall'.op = "register_interrupt" /\ lastCall'.arg[2] = None) =>
            handlers' = handlers
       /\ \A k \in TraceEvents(lastCall'.trace, "start") :
            LET i == lastCall'.trace[k].inst
            IN threads'[i].callback = handlers[instances'[i].name]]_vars

\* C25 witness: a callback is stored under a name that has no definition
C25_Witness ==
    /\ lastCall.op = "register_handler"
    /\ lastCall.arg # None
    /\ lastCall.name \notin DOMAIN interrupts
    /\ lastCall.name \in DOMAIN handlers
    /\ handlers[lastCall.name] = lastCall.arg

\* an instance of higher priority than L is pending or active
LoadAbove(pq, stack, insts, L) ==
    \E H \in Items(pq) \cup Elems(stack) : insts[H].priority > insts[L].priority

C27_NoEligibleWaiting ==
    (lock = FreeLock /\ ~is_empty(pending_queue)) =>
        /\ active_stack # <<>>
        /\ \A i \in Items(pending_queue) :
              instances[i].priority
                 <= instances[active_stack[Len(active_stack)]].priority

\* C27 witness: an instance waits after a finish call whose one admission
\* step admitted another instance of the same priority
C27_Witness ==
    /\ lock = FreeLock
    /\ lastCall.op = "finish"
    /\ Cardinality(Items(pending_queue)) = 1
    /\ Len(active_stack) = 1
    /\ active_stack[1] \in Admitted(lastCall.trace)
    /\ \E i \in Items(pending_queue) :
          instances[i].priority = instances[active_stack[1]].priority

\* instance i was accepted / has left the pending queue / has left the
\* active stack as well
Accepted(i) == i \in DOMAIN instances
HasBeenAdmitted(i) == Accepted(i) /\ i \notin Items(pending_queue)
HasFinished(i) == HasBeenAdmitted(i) /\ ~Contains(active_stack, i)

\* nothing pending, nothing active, completion signal set
Quiescent ==
    /\ is_empty(pending_queue)
    /\ active_stack = <<>>
    /\ processing_event

\* C28 as stated: with finitely many accepted triggers, terminating
\* callbacks and fair scheduling, every accepted instance is admitted and
\* finished, and the system reaches quiescence, completion signal true,
\* and stays there, however many triggers were accepted.
C28_Original == <>[](Quiescent /\ \A i \in DOMAIN instances : HasFinished(i))

\* C28: with finitely many accepted triggers, terminating callbacks and
\* fair scheduling, every accepted instance is eventually admitted and
\* eventually finished, and once a trigger has been accepted the system
\* reaches quiescence (empty queue, empty stack, completion signal true)
\* and stays there: from some point on, either no trigger was ever accepted
\* or every accepted instance has finished and the system is quiescent.
C28_Quiescence ==
    <>[](\/ instances = <<>>
         \/ (Quiescent /\ \A i \in DOMAIN instances : HasFinished(i)))

\* C28 witness: every trigger the bound allows was accepted, every thread
\* started has finished its instance, and the system is quiescent
C28_Witness ==
    /\ Len(instances) = MaxTriggers
    /\ \A i \in 1..Len(instances) : HasFinished(i)
    /\ \E i, j \in 1..Len(instances) :
          threads[i].pc = "done" /\ threads[j].pc = "none"
    /\ Quiescent

\* C29: between calls, a set completion signal implies an empty pending
\* queue; an empty queue does not imply a set signal.
C29_SignalImpliesQueueEmpty ==
    (lock = FreeLock /\ processing_event) => is_empty(pending_queue)

\* C29 witness: the signal is set with the queue empty while an instance
\* is still running, after an earlier state of this execution had the queue
\* empty and the signal clear (that instance admitted at once by trigger)
C29_Witness ==
    /\ lock = FreeLock
    /\ processing_event
    /\ is_empty(pending_queue)
    /\ lastCall.op = "finish"
    /\ \E i \in 1..Len(active_stack) :
          /\ threads[active_stack[i]].pc = "started"
          /\ active_stack[i] < lastCall.arg

\* the admission steps of a call that found the queue empty (and so set the
\* completion signal) and were run by _finish_interrupt: in the trace the
\* step comes right after the removal of the finished instance
SetByFinish(tr) ==
    {k \in TraceEvents(tr, "pp") : tr[k].empty /\ k > 1 /\ tr[k - 1].ev = "finish"}

\* C30: the completion signal starts false and is false as long as no
\* trigger has been accepted, so that wait_for_completion does not return
\* True then although the queue is empty; it is set only by an admission
\* step run by _finish_interrupt: the step trigger runs right after its
\* push never finds the queue empty, an accepted trigger returns with the
\* signal set only if a finish nested in it set it, and register, mask and
\* rejected trigger calls leave the signal as it is.
C30_SignalSetOnlyByFinish ==
    /\ ~processing_event
    /\ [](instances = <<>> => ~processing_event)
    /\ [][LET tr == lastCall'.trace
              op == lastCall'.op
          IN /\ \A k \in TraceEvents(tr, "pp") :
                   /\ tr[k].empty => k \in SetByFinish(tr)
                   /\ (k > 1 /\ tr[k - 1].ev = "push") => ~tr[k].empty
             /\ (processing_event' /\ ~processing_event) => SetByFinish(tr) # {}
             /\ (op = "trigger" /\ lastCall'.ret = TRUE /\ processing_event')
                   => SetByFinish(tr) # {}
             /\ (op = "trigger" /\ lastCall'.ret = FALSE)
                   => processing_event' = processing_event
             /\ op \in {"register_interrupt", "register_handler",
                        "mask_interrupt", "mask_all"}
                   => processing_event' = processing_event
             /\ (op = "wait_for_completion" /\ instances = <<>>)
                   => lastCall'.ret = FALSE]_vars

\* C30 witness: the first accepted trigger, of a name without a handler,
\* has returned with the signal set: its own admission step found the
\* queue not empty and admitted the instance, and the step run by the
\* finish nested in the call found the queue empty
C30_Witness ==
    /\ lastCall.op = "trigger"
    /\ lastCall.ret = TRUE
    /\ Len(instances) = 1
    /\ processing_event
    /\ SetByFinish(lastCall.trace) # {}
    /\ \E k \in TraceEvents(lastCall.trace, "pp") :
          k > 1 /\ lastCall.trace[k - 1].ev = "push" /\ ~lastCall.trace[k].empty

\* C31: the callback an instance runs is the one stored under its name in
\* self.handlers when the instance is admitted: while the instance is
\* pending no callback is chosen for it, register_handler leaves pending
\* instances and their threads alone, and the call that admits the instance
\* starts a thread with the callback self.handlers holds then (or none when
\* nothing is stored), whatever self.handlers held when the instance was
\* triggered and whatever the handler field of the instance holds; the
\* thread then runs that callback.
C31_CallbackResolvedAtAdmission ==
    [][/\ \A i \in Items(pending_queue') :
             threads'[i] = [pc |-> "none", callback |-> None]
       /\ lastCall'.op = "register_handler" =>
             /\ threads' = threads
             /\ instances' = instances
             /\ pending_queue' = pending_queue
       /\ \A k \in TraceEvents(lastCall'.trace, "admit") :
             LET i == lastCall'.trace[k].inst
                 now == HandlersGet(handlers, instances'[i].name)
             IN IF now = NoHandler
                THEN threads'[i] = [pc |-> "none", callback |-> None]
                ELSE threads'[i] = [pc |-> "started", callback |-> now]
       /\ lastCall'.op = "handle" =>
             /\ threads'[lastCall'.arg].callback = threads[lastCall'.arg].callback
             /\ threads'[lastCall'.arg].pc
                   \in HandleOutcomes(threads[lastCall'.arg].callback)]_vars

\* C31 witness: an instance triggered while "cb" was stored under its name
\* has run "cb2", stored by a later register_handler before the instance
\* was admitted; the handler field of the instance holds neither
C31_Witness ==
    /\ lastCall.op = "handle"
    /\ lastCall.ret = TRUE
    /\ handler_at_trigger[lastCall.arg] = "cb"
    /\ threads[lastCall.arg].callback = "cb2"
    /\ threads[lastCall.arg].pc = "returned"
    /\ handlers[instances[lastCall.arg].name] = "cb2"
    /\ instances[lastCall.arg].handler = None

====
